---- MODULE Spec2Model ----
(***************************************************************************)
(* RoboPaint mode preload (src/unnamed/part_000): the per-mode runtime     *)
(* bridge between a mode page and the host process.  The model covers the  *)
(* IPC handlers, the close handshake, the command passthrough, the boot    *)
(* join (preloadComplete) and the translate runs.                          *)
(*                                                                         *)
(* Init is the state right after the preload script's top level has run:   *)
(* handlers are registered, the device-settings fetch is in flight, the    *)
(* paper load is in flight when the mode declares it, and the DOM-ready    *)
(* callback of i18nInit is registered but has not fired.  Every later step *)
(* is one callback run to completion (single-threaded event loop).         *)
(***************************************************************************)
EXTENDS Naturals, Sequences, FiniteSets, TLC

VARIABLES
  caps,          \* function-typed properties the mode object carries
  dependencies,  \* mode.robopaint.dependencies (package.json)
  i18nType,      \* mode.robopaint.i18n (package.json)
  mapFile,       \* what require(<name>.map.json) does for this mode
  domReady,      \* the document has fired DOM-ready
  canvas,        \* robopaint.canvas is set
  paper,         \* window.paper is set
  botPending,    \* the api.settings.bot() completion has not fired yet
  paperPending,  \* the rpRequire('paper', ...) completion has not fired yet
  outbound,      \* ipc.sendToHost calls, in order: [chan, args]
  calls,         \* invocations of mode capabilities, in order: [fn, args]
  closures,      \* acknowledgment callbacks handed to mode.onClose
  closeReqs,     \* channels of the inbound close events, in arrival order
  nTranslate,    \* number of translateMode() runs so far
  rpSettings,    \* robopaint.settings (the in-memory central settings)
  centralStore,  \* the persisted central settings document
  uncaught,      \* some handler ended with an uncaught exception
  nev,           \* number of host events and mode calls so far
  last,          \* the operation the latest step performed
  bootTrace,     \* what the boot continuation has done so far, in order
  v,             \* mode.settings.v
  modeStore,     \* the persisted settings document of this mode
  controls,      \* the form controls of the page: value, bound handlers
  written,       \* per key, the value its change handler wrote last
  sharedFiles,   \* the files of <app>/resources/_i18n, in readdir order
  localFiles,    \* the files of <mode>/_i18n, in readdir order
  res,           \* the resource store handed to i18n.init
  dom,           \* the elements of the page: child nodes and attributes
  mappings       \* require(<name>.map.json).map, in for-in order

vars == <<caps, dependencies, i18nType, mapFile, domReady, canvas, paper,
          botPending, paperPending, outbound, calls, closures, closeReqs,
          nTranslate, rpSettings, centralStore, uncaught,
          nev, last, bootTrace, v, modeStore, controls, written,
          sharedFiles, localFiles, res, dom, mappings>>

config == <<caps, dependencies, i18nType, mapFile>>
bootVars == <<domReady, canvas, paper, botPending, paperPending>>
settingsVars == <<rpSettings, centralStore>>
formVars == <<v, modeStore, controls, written>>
i18nVars == <<sharedFiles, localFiles, res>>

----------------------------------------------------------------------------
(* Bounds and input sets *)

MaxEvents == 2

Capabilities ==
  {"onClose", "onPenUpdate", "onBufferUpdate", "onFullyPaused",
   "onFullyResumed", "onCallbackEvent", "onMessage", "translateComplete",
   "bindControls", "pageInitReady"}

\* The capability sets of the modes the model loads.
CapProfiles ==
  { {},
    Capabilities,
    {"onMessage", "onPenUpdate", "translateComplete", "bindControls"},
    {"onClose", "onFullyPaused", "pageInitReady"} }

DepProfiles == { <<>>, <<"jquery", "paper">> }

MapFiles == {"ok", "nomatch", "missing", "malformed"}

SettingsDocs == {"s0", "s1"}

Payloads == {"d1"}

\* Event names of the 'cncserver' channel, as character sequences.
CncNames ==
  { <<"p","e","n","U","p","d","a","t","e">>,
    <<"b","u","f","f","e","r","U","p","d","a","t","e">>,
    <<"f","u","l","l","y","P","a","u","s","e","d">>,
    <<"f","u","l","l","y","R","e","s","u","m","e","d">>,
    <<"c","a","l","l","b","a","c","k","E","v","e","n","t">>,
    <<"l","a","n","g","C","h","a","n","g","e">>,
    <<"P","e","n","U","p","d","a","t","e">> }

\* Argument lists the mode passes to mode.run.
RunInputs ==
  << << <<"clear", "resume">> >>,
     << <<"up">>, <<"down">> >> >>

CancelMessages == {"done", "cancelled"}

----------------------------------------------------------------------------
(* Helpers *)

RECURSIVE Str(_)
Str(s) == IF s = <<>> THEN "" ELSE Head(s) \o Str(Tail(s))

\* String.prototype.toUpperCase on one character.
toUpperCase(c) ==
  CASE c = "p" -> "P" [] c = "b" -> "B" [] c = "f" -> "F" [] c = "c" -> "C"
    [] c = "l" -> "L" [] c = "m" -> "M" [] OTHER -> c

\* _.isFunction(mode[prop])
isFunction(prop) == prop \in caps

Call(fn, args) == [fn |-> fn, args |-> args]
Msg(chan, args) == [chan |-> chan, args |-> args]
Op(op, a) == [op |-> op, a |-> a]

----------------------------------------------------------------------------
(* mode.run, mode.fullCancel *)

\* Array.prototype.slice.call(arguments)
ArgumentsSlice(arguments) == [i \in 1..Len(arguments) |-> arguments[i]]

\* Variant of run that forwards only the first argument.
runFirstArgument(arguments) == Msg("cncserver-run", <<arguments[1]>>)

\* mode.run: the message one call hands to ipc.sendToHost.
run(arguments) == Msg("cncserver-run", <<ArgumentsSlice(arguments)>>)

\* Variant of fullCancel that queues the local clear first.
fullCancelLocalclearFirst(message) ==
  << << "localclear", "clear", "resume", "park", <<"status", message, TRUE>>,
        <<"progress", 0, 1>> >>,
     TRUE >>

\* mode.fullCancel: the argument list it passes to mode.run.
fullCancel(message) ==
  << << "clear", "resume", "park", <<"status", message, TRUE>>,
        <<"progress", 0, 1>>, "localclear" >>,
     TRUE >>

----------------------------------------------------------------------------
(* handleModeClose *)

\* The callback function(){ ipc.sendToHost(returnChannel); } as a closure.
AckCallback(returnChannel) == [chan |-> returnChannel, fired |-> FALSE]

\* Variant of handleModeClose without the else branch.
handleModeCloseNoElse(returnChannel) ==
  IF isFunction("onClose")
  THEN /\ calls' = Append(calls, Call("onClose", <<"callback">>))
       /\ closures' = Append(closures, AckCallback(returnChannel))
       /\ outbound' = outbound
  ELSE UNCHANGED <<outbound, calls, closures>>

\* Variant of handleModeClose that acknowledges without waiting for the mode.
handleModeCloseEager(returnChannel) ==
  /\ outbound' = Append(outbound, Msg(returnChannel, <<>>))
  /\ IF isFunction("onClose")
     THEN /\ calls' = Append(calls, Call("onClose", <<"callback">>))
          /\ closures' = Append(closures, AckCallback(returnChannel))
     ELSE UNCHANGED <<calls, closures>>

\* Variant of handleModeClose whose callback always answers on 'globalclose'.
handleModeCloseFixedChannel(returnChannel) ==
  IF isFunction("onClose")
  THEN /\ calls' = Append(calls, Call("onClose", <<"callback">>))
       /\ closures' = Append(closures, AckCallback("globalclose"))
       /\ outbound' = outbound
  ELSE /\ outbound' = Append(outbound, Msg("globalclose", <<>>))
       /\ UNCHANGED <<calls, closures>>

handleModeClose(returnChannel) ==
  IF isFunction("onClose")
  THEN /\ calls' = Append(calls, Call("onClose", <<"callback">>))
       /\ closures' = Append(closures, AckCallback(returnChannel))
       /\ outbound' = outbound
  ELSE /\ outbound' = Append(outbound, Msg(returnChannel, <<>>))
       /\ UNCHANGED <<calls, closures>>

----------------------------------------------------------------------------
(* The page and the DOM map.  An element has a sequence of child nodes     *)
(* (text nodes and child elements) and attributes; a map rule has a        *)
(* selector and either one i18n key or a list of attribute/key pairs.      *)

TextNode(x) == [type |-> "text", v |-> x]
ElemNode(id) == [type |-> "elem", v |-> id]

\* robopaint.t(key): the translation, or the key itself when there is none
robopaintT(key) ==
  CASE key = "k.start" -> "Go"
    [] key = "k.tip" -> "Tip"
    [] OTHER -> key

\* $(selector) does not throw
ValidSelector(selector) == selector # "!!"

\* $(selector): the elements of the page the selector matches
Select(d, selector) ==
  (CASE selector = "#a" -> {"a"}
     [] selector = "#c" -> {"c"}
     [] selector = ".btn" -> {"a", "b"}
     [] OTHER -> {}) \cap DOMAIN d

\* .contents().filter(nodeType == 3).first(): position of the first direct
\* text node, 0 when there is none
FirstText(nodes) ==
  IF \E i \in DOMAIN nodes : nodes[i].type = "text"
  THEN CHOOSE i \in DOMAIN nodes :
         /\ nodes[i].type = "text"
         /\ \A j \in 1..(i - 1) : nodes[j].type # "text"
  ELSE 0

\* .text(x): every child node gives way to one text node.
textAll(nodes, x) == <<TextNode(x)>>

\* .contents().filter(...).first().replaceWith(x)
replaceFirstText(nodes, x) ==
  IF FirstText(nodes) = 0 THEN nodes
  ELSE [nodes EXCEPT ![FirstText(nodes)] = TextNode(x)]

\* $(this).attr(attr, x)
setAttr(attrs, attr, x) ==
  [k \in DOMAIN attrs \cup {attr} |-> IF k = attr THEN x ELSE attrs[k]]

\* $elements.each(...) for one attribute of an object rule
applyAttr(d, matched, attr, key) ==
  [id \in DOMAIN d |->
     IF id \notin matched THEN d[id]
     ELSE IF attr = "text"
          THEN [d[id] EXCEPT !.nodes = replaceFirstText(@, robopaintT(key))]
          ELSE [d[id] EXCEPT !.attrs = setAttr(@, attr, robopaintT(key))]]

\* for (var attr in i18nKey)
RECURSIVE applyAttrs(_, _, _)
applyAttrs(d, matched, pairs) ==
  IF pairs = <<>> THEN d
  ELSE applyAttrs(applyAttr(d, matched, Head(pairs)[1], Head(pairs)[2]),
                  matched, Tail(pairs))

\* The body of the loop over selectors, for one rule.
applyRule(d, rule) ==
  LET matched == Select(d, rule.selector)
  IN CASE rule.kind = "string" -> applyAttr(d, matched, "text", rule.key)
       [] rule.kind = "object" -> applyAttrs(d, matched, rule.attrs)
       [] OTHER -> d

\* for (var selector in mappings): a selector jQuery rejects throws and ends
\* the loop, what was translated before it stays.
RECURSIVE applyRules(_, _)
applyRules(d, rules) ==
  IF rules = <<>> THEN d
  ELSE IF ~ValidSelector(Head(rules).selector) THEN d
  ELSE applyRules(applyRule(d, Head(rules)), Tail(rules))

----------------------------------------------------------------------------
(* translateMode *)

\* The body of the try block of the DOM-map branch: require() throws on a
\* missing or malformed file.
DomMapBody ==
  IF \/ mapFile \in {"missing", "malformed"}
     \/ \E i \in DOMAIN mappings : ~ValidSelector(mappings[i].selector)
  THEN "throw" ELSE "normal"

\* Variant of the catch clause that lets the exception through.
CatchNothing(outcome) == outcome

\* catch(e) { console.error(...) }: the exception ends here.
CatchBadDomFile(outcome) == "normal"

translateMode ==
  LET outcome == IF i18nType = "dom" THEN CatchBadDomFile(DomMapBody)
                 ELSE "normal"
  IN /\ nTranslate' = nTranslate + 1
     /\ dom' = IF i18nType = "dom" /\ mapFile \notin {"missing", "malformed"}
               THEN applyRules(dom, mappings)
               ELSE dom
     /\ IF outcome = "throw"
        THEN /\ uncaught' = TRUE
             /\ calls' = calls
        ELSE /\ uncaught' = uncaught
             /\ calls' = IF isFunction("translateComplete")
                         THEN Append(calls, Call("translateComplete", <<>>))
                         ELSE calls

----------------------------------------------------------------------------
(* handleCNCServerMessages *)

\* Variant of funcName that does not capitalise the event name.
funcNameNoCapital(name) == "on" \o Str(name)

\* 'on' + name.charAt(0).toUpperCase() + name.slice(1)
funcName(name) ==
  "on" \o toUpperCase(name[1]) \o Str(SubSeq(name, 2, Len(name)))

handleCNCServerMessages(name, data) ==
  IF Str(name) \in {"penUpdate", "bufferUpdate", "fullyPaused",
                    "fullyResumed", "callbackEvent"}
  THEN /\ calls' = IF isFunction(funcName(name))
                   THEN Append(calls, Call(funcName(name), <<data>>))
                   ELSE calls
       /\ UNCHANGED <<nTranslate, uncaught, dom>>
  ELSE IF Str(name) = "langChange"
  THEN translateMode
  ELSE /\ calls' = IF isFunction("onMessage")
                   THEN Append(calls, Call("onMessage", <<Str(name), data>>))
                   ELSE calls
       /\ UNCHANGED <<nTranslate, uncaught, dom>>

----------------------------------------------------------------------------
(* preloadComplete *)

\* _.contains(mode.robopaint.dependencies, 'paper')
DeclaresPaper == \E i \in 1..Len(dependencies) : dependencies[i] = "paper"

\* Variant of the early return that waits only while both are missing.
NotReadyYetBothMissing(c, p) == DeclaresPaper /\ (~c /\ ~p)

\* The early return: true when the continuation must not run yet.
\* c and p are robopaint.canvas and window.paper at the time of the call.
NotReadyYet(c, p) == DeclaresPaper /\ (~c \/ ~p)

\* The continuation of preloadComplete, statement by statement: what it
\* does, in order.
BootContinuation ==
  <<"run">>
  \o (IF isFunction("bindControls") THEN <<"bindControls">> ELSE <<>>)
  \o (IF isFunction("pageInitReady") THEN <<"pageInitReady">> ELSE <<>>)

preloadComplete(c, p) ==
  IF NotReadyYet(c, p)
  THEN UNCHANGED <<outbound, calls, bootTrace>>
  ELSE /\ outbound' = Append(outbound, run(<< <<"clear", "resume">> >>))
       /\ calls' = calls
            \o (IF isFunction("bindControls")
                THEN <<Call("bindControls", <<>>)>> ELSE <<>>)
            \o (IF isFunction("pageInitReady")
                THEN <<Call("pageInitReady", <<>>)>> ELSE <<>>)
       /\ bootTrace' = bootTrace \o BootContinuation

----------------------------------------------------------------------------
(* mode.settings: load, save, clear, $manage *)

\* The page's form elements, in document order, and the values a user can
\* give them.  'name' is a text input, 'size' a select, 'tool' a container
\* of radio buttons, 'panel' a container without radio buttons.
DocOrder == <<"name", "size", "tool", "panel">>

ControlKinds ==
  [name |-> "text", size |-> "select", tool |-> "radio", panel |-> "none"]

ControlOptions ==
  [name |-> <<"a", "b">>, size |-> <<"s", "m">>, tool |-> <<"pen", "brush">>,
   panel |-> <<>>]

Range(q) == {q[i] : i \in DOMAIN q}

EmptyDoc == <<>>

\* doc[key] = x
SetKey(doc, key, x) ==
  [k \in DOMAIN doc \cup {key} |-> IF k = key THEN x ELSE doc[k]]

\* robopaint.utils.getSettings(mode.robopaint.name): the persisted document
\* of the mode, the empty mapping when there is none.
getSettings(store) == store

\* robopaint.utils.saveSettings(v, mode.robopaint.name)
saveSettings(doc) == doc

\* robopaint.utils.clearSettings(mode.robopaint.name)
clearSettings == EmptyDoc

\* The functions below take and return st = [v, store, controls]:
\* mode.settings.v, the persisted document and the form controls.

settingsLoad(st) == [st EXCEPT !.v = getSettings(st.store)]

settingsSave(st) == [st EXCEPT !.store = saveSettings(st.v)]

settingsClear(st) == [st EXCEPT !.store = clearSettings]

\* Variant of the scalar change handler that forgets to save.
scalarChangeHandlerNoSave(st, key) ==
  [st EXCEPT !.v = SetKey(st.v, key, st.controls[key].value)]

\* Variant of the scalar change handler that adds to the stored value.
scalarChangeHandlerAppend(st, key) ==
  settingsSave([st EXCEPT !.v =
    SetKey(st.v, key,
           IF key \in DOMAIN st.v
           THEN st.v[key] \o st.controls[key].value
           ELSE st.controls[key].value)])

\* function(){ mode.settings.v[key] = this.value; mode.settings.save(); }
scalarChangeHandler(st, key) ==
  settingsSave([st EXCEPT !.v = SetKey(st.v, key, st.controls[key].value)])

\* The handler bound to each radio button of container key, run on the
\* radio button whose value is radioValue.
radioChangeHandler(st, key, radioValue) ==
  IF st.controls[key].value = radioValue   \* $(this).prop('checked')
  THEN settingsSave([st EXCEPT !.v = SetKey(st.v, key, radioValue)])
  ELSE st

\* A change event on the scalar control key: every bound handler runs.
RECURSIVE triggerScalar(_, _, _)
triggerScalar(st, key, n) ==
  IF n = 0 THEN st
  ELSE triggerScalar(scalarChangeHandler(st, key), key, n - 1)

\* A change event on one radio button: every handler bound to it runs.
RECURSIVE triggerRadio(_, _, _, _)
triggerRadio(st, key, radioValue, n) ==
  IF n = 0 THEN st
  ELSE triggerRadio(radioChangeHandler(st, key, radioValue), key,
                    radioValue, n - 1)

\* $radio.change(): a change event on each radio button, in order.
RECURSIVE triggerAllRadios(_, _, _)
triggerAllRadios(st, key, radios) ==
  IF radios = <<>> THEN st
  ELSE triggerAllRadios(
         triggerRadio(st, key, Head(radios), st.controls[key].handlers),
         key, Tail(radios))

\* $(this).val(x): a text input takes any value, a select only one of its
\* options and otherwise ends with nothing selected.
val(st, key, x) ==
  [st EXCEPT !.controls[key].value =
     IF ControlKinds[key] = "select" /\ x \notin Range(ControlOptions[key])
     THEN "" ELSE x]

\* $radio.prop('checked', false); $('input[value=x]', this).prop('checked',
\* true): the checked radio button, "none" when no button has that value.
checkRadio(st, key, x) ==
  [st EXCEPT !.controls[key].value =
     IF x \in Range(ControlOptions[key]) THEN x ELSE "none"]

bindHandler(st, key) ==
  [st EXCEPT !.controls[key].handlers = st.controls[key].handlers + 1]

\* The body of $(selectors).each(...) for the element with id key.
manageElement(st, key) ==
  IF ControlKinds[key] \in {"text", "select"}
  THEN LET st1 == IF key \in DOMAIN st.v THEN val(st, key, st.v[key]) ELSE st
           st2 == bindHandler(st1, key)
       IN triggerScalar(st2, key, st2.controls[key].handlers)
  ELSE IF ControlOptions[key] # <<>>
  THEN LET st1 == IF key \in DOMAIN st.v
                  THEN checkRadio(st, key, st.v[key]) ELSE st
           st2 == bindHandler(st1, key)
       IN triggerAllRadios(st2, key, ControlOptions[key])
  ELSE st   \* console.warn('Incompatible settings $manage element')

RECURSIVE manageEach(_, _)
manageEach(st, elements) ==
  IF elements = <<>> THEN st
  ELSE manageEach(manageElement(st, Head(elements)), Tail(elements))

\* mode.settings.$manage(selectors); elements are the matched elements in
\* document order.
manage(st, elements) == manageEach(settingsLoad(st), elements)

SettingsState == [v |-> v, store |-> modeStore, controls |-> controls]

SetSettingsState(st) ==
  /\ v' = st.v
  /\ modeStore' = st.store
  /\ controls' = st.controls

\* The controls of a freshly loaded page: no handler bound; the text input
\* empty, the first option of the select chosen, no radio button checked.
FreshControls ==
  [k \in Range(DocOrder) |->
     [value |-> CASE ControlKinds[k] = "text" -> ""
                  [] ControlKinds[k] = "select" -> ControlOptions[k][1]
                  [] OTHER -> "none",
      handlers |-> 0]]

----------------------------------------------------------------------------
(* i18nInit: the resource store built from the shared and the mode-local   *)
(* language files.  A JSON object is the set of its leaves, each a path of *)
(* keys and the string found there.                                        *)

Leaf(path, x) == [p |-> path, x |-> x]

StartsWith(path, prefix) ==
  /\ Len(prefix) <= Len(path)
  /\ SubSeq(path, 1, Len(prefix)) = prefix

\* obj.k1.k2... is neither undefined nor empty
Has(obj, path) == \E e \in obj : StartsWith(e.p, path)

\* obj.k1.k2... is a string
IsString(obj, path) == \E e \in obj : e.p = path

\* the value of obj.k1.k2...
Sub(obj, path) ==
  {Leaf(SubSeq(e.p, Len(path) + 1, Len(e.p)), e.x) :
     e \in {e \in obj : StartsWith(e.p, path)}}

\* obj.k1.k2... = value
Put(obj, path, value) ==
  {e \in obj : ~StartsWith(e.p, path)}
    \cup {Leaf(path \o e.p, e.x) : e \in value}

\* mode.robopaint.name
ModeName == "draw"

\* file.indexOf('.map.json') === -1, on a file name split at its dots
NotMapFile(name) ==
  ~\E i \in 1..(Len(name) - 1) : name[i] = "map" /\ name[i + 1] = "json"

\* require(file) returns without throwing and data._meta.target can be read
Readable(file) == file.ok /\ Has(file.data, <<"_meta">>)

\* langCode = data._meta.target, used as a property name
targetOf(data) ==
  IF IsString(data, <<"_meta", "target">>)
  THEN (CHOOSE e \in data : e.p = <<"_meta", "target">>).x
  ELSE "undefined"

\* One shared file: the try block of the first loop; a throw leaves res as
\* it was.  The freshly initialised { translation: {} } is overwritten at
\* once, so Put alone gives the result.
sharedFile(r, file) ==
  IF ~Readable(file) THEN r
  ELSE Put(r, <<targetOf(file.data), "translation">>, file.data)

\* One mode-local file: the second loop's body.
localFile(r, file) ==
  IF ~NotMapFile(file.name) THEN r
  ELSE IF ~Readable(file) THEN r
  ELSE LET langCode == targetOf(file.data)
           modes == <<langCode, "translation", "modes">>
       IN IF ~Has(r, <<langCode>>) THEN r       \* TypeError, caught
          ELSE IF IsString(r, modes) THEN r     \* TypeError, caught
          ELSE Put(r, modes \o <<ModeName>>, file.data)

RECURSIVE sharedLoop(_, _)
sharedLoop(r, files) ==
  IF files = <<>> THEN r
  ELSE sharedLoop(sharedFile(r, Head(files)), Tail(files))

RECURSIVE localLoop(_, _)
localLoop(r, files) ==
  IF files = <<>> THEN r
  ELSE localLoop(localFile(r, Head(files)), Tail(files))

\* The resStore handed to i18n.init.
resStore(shared, local) == localLoop(sharedLoop({}, shared), local)

----------------------------------------------------------------------------
(* Initial state: the preload script's top level has run. *)

Init ==
  /\ caps \in CapProfiles
  /\ dependencies \in DepProfiles
  /\ \/ i18nType = "native" /\ mapFile = "missing"
     \/ i18nType = "dom" /\ mapFile \in MapFiles
  /\ domReady = FALSE
  /\ canvas = FALSE
  /\ paper = FALSE
  /\ botPending = TRUE
  /\ paperPending = DeclaresPaper
  /\ outbound = <<>>
  /\ calls = <<>>
  /\ closures = <<>>
  /\ closeReqs = <<>>
  /\ nTranslate = 0
  /\ centralStore = "s0"
  /\ rpSettings = centralStore
  /\ uncaught = FALSE
  /\ nev = 0
  /\ last = Op("load", <<>>)
  /\ bootTrace = <<>>
  /\ modeStore = <<>>
  /\ v = modeStore
  /\ controls = FreshControls
  /\ written = <<>>
  /\ sharedFiles = <<>>
  /\ localFiles = <<>>
  /\ res = resStore(sharedFiles, localFiles)
  /\ dom = <<>>
  /\ mappings = <<>>

----------------------------------------------------------------------------
(* Steps *)

Event(op, a) ==
  /\ nev < MaxEvents
  /\ nev' = nev + 1
  /\ last' = Op(op, a)

\* ipc.on('globalclose') / ipc.on('modechange')
IpcClose(chan) ==
  /\ Event(chan, <<>>)
  /\ closeReqs' = Append(closeReqs, chan)
  /\ handleModeClose(chan)
  /\ UNCHANGED <<config, bootVars, settingsVars, nTranslate, uncaught>>
  /\ UNCHANGED <<bootTrace, formVars, i18nVars, dom, mappings>>

IpcGlobalclose == IpcClose("globalclose")

IpcModechange == IpcClose("modechange")

\* The mode calls an acknowledgment callback it was handed (each at most once).
FireAck ==
  \E i \in 1..Len(closures) :
    /\ ~closures[i].fired
    /\ closures' = [closures EXCEPT ![i].fired = TRUE]
    /\ outbound' = Append(outbound, Msg(closures[i].chan, <<>>))
    /\ last' = Op("fireAck", <<>>)
    /\ UNCHANGED <<config, bootVars, settingsVars, nTranslate, calls,
                   closeReqs, uncaught, nev>>
    /\ UNCHANGED <<bootTrace, formVars, i18nVars, dom, mappings>>

\* ipc.on('cncserver')
IpcCncserver ==
  \E name \in CncNames, data \in Payloads :
    /\ Event("cncserver", <<Str(name), data>>)
    /\ handleCNCServerMessages(name, data)
    /\ UNCHANGED <<config, bootVars, settingsVars, outbound,
                   closures, closeReqs>>
    /\ UNCHANGED <<bootTrace, formVars, i18nVars, mappings>>

\* ipc.on('settingsUpdate')
IpcSettingsUpdate ==
  /\ Event("settingsUpdate", <<>>)
  /\ rpSettings' = centralStore
  /\ UNCHANGED <<config, bootVars, nTranslate, centralStore, outbound, calls,
                 closures, closeReqs, uncaught>>
  /\ UNCHANGED <<bootTrace, formVars, i18nVars, dom, mappings>>

\* The host saves the central settings document.
HostSavesSettings ==
  \E d \in SettingsDocs \ {centralStore} :
    /\ Event("hostSave", <<d>>)
    /\ centralStore' = d
    /\ UNCHANGED <<config, bootVars, nTranslate, rpSettings, outbound, calls,
                   closures, closeReqs, uncaught>>
    /\ UNCHANGED <<bootTrace, formVars, i18nVars, dom, mappings>>

\* The mode calls mode.run(...).
ModeRun ==
  \E i \in 1..Len(RunInputs) :
    /\ Event("run", <<i>>)
    /\ outbound' = Append(outbound, run(RunInputs[i]))
    /\ UNCHANGED <<config, bootVars, settingsVars, nTranslate, calls, closures,
                   closeReqs, uncaught>>
    /\ UNCHANGED <<bootTrace, formVars, i18nVars, dom, mappings>>

\* The mode calls mode.fullCancel(message).
ModeFullCancel ==
  \E message \in CancelMessages :
    /\ Event("fullCancel", <<message>>)
    /\ outbound' = Append(outbound, run(fullCancel(message)))
    /\ UNCHANGED <<config, bootVars, settingsVars, nTranslate, calls, closures,
                   closeReqs, uncaught>>
    /\ UNCHANGED <<bootTrace, formVars, i18nVars, dom, mappings>>

\* $(function(){ translateMode(); }) registered by i18nInit fires.
DomReady ==
  /\ ~domReady
  /\ domReady' = TRUE
  /\ translateMode
  /\ last' = Op("domReady", <<>>)
  /\ UNCHANGED <<config, canvas, paper, botPending, paperPending,
                 settingsVars, outbound, closures, closeReqs, nev>>
  /\ UNCHANGED <<bootTrace, formVars, i18nVars, mappings>>

\* The api.settings.bot() completion: sets robopaint.canvas, then
\* preloadComplete().
BotSettings ==
  /\ botPending
  /\ botPending' = FALSE
  /\ canvas' = TRUE
  /\ preloadComplete(TRUE, paper)
  /\ last' = Op("botSettings", <<>>)
  /\ UNCHANGED <<config, domReady, paper, paperPending, settingsVars,
                 nTranslate, closures, closeReqs, uncaught, nev>>
  /\ UNCHANGED <<formVars, i18nVars, dom, mappings>>

\* The rpRequire('paper', preloadComplete) completion: the library has set
\* window.paper, then preloadComplete().
PaperLoaded ==
  /\ paperPending
  /\ paperPending' = FALSE
  /\ paper' = TRUE
  /\ preloadComplete(canvas, TRUE)
  /\ last' = Op("paperLoaded", <<>>)
  /\ UNCHANGED <<config, domReady, canvas, botPending, settingsVars,
                 nTranslate, closures, closeReqs, uncaught, nev>>
  /\ UNCHANGED <<formVars, i18nVars, dom, mappings>>

Next ==
  \/ IpcGlobalclose
  \/ IpcModechange
  \/ FireAck
  \/ IpcCncserver
  \/ IpcSettingsUpdate
  \/ HostSavesSettings
  \/ ModeRun
  \/ ModeFullCancel
  \/ DomReady
  \/ BotSettings
  \/ PaperLoaded

Spec == Init /\ [][Next]_vars

----------------------------------------------------------------------------
(* The settings store and the form binding layer on their own: the mode    *)
(* calls load, save, clear and $manage, the user changes controls.         *)

MaxOps == 4

coreVars == <<config, bootVars, settingsVars, outbound, calls, closures,
              closeReqs, nTranslate, uncaught, bootTrace>>

\* Persisted documents a mode can find at load time.
StorePool ==
  { EmptyDoc,
    "name" :> "b",
    "size" :> "zz",
    ("name" :> "a") @@ ("tool" :> "brush"),
    ("size" :> "m") @@ ("tool" :> "zz") }

\* Element lists $(selectors) can match, in document order.
ManageInputs == { <<"name">>, <<"size", "tool">>, DocOrder }

InitSettings ==
  /\ caps = {}
  /\ dependencies = <<>>
  /\ i18nType = "native"
  /\ mapFile = "missing"
  /\ domReady = TRUE
  /\ canvas = TRUE
  /\ paper = FALSE
  /\ botPending = FALSE
  /\ paperPending = FALSE
  /\ outbound = <<run(<< <<"clear", "resume">> >>)>>
  /\ calls = <<>>
  /\ closures = <<>>
  /\ closeReqs = <<>>
  /\ nTranslate = 1
  /\ centralStore = "s0"
  /\ rpSettings = centralStore
  /\ uncaught = FALSE
  /\ nev = 0
  /\ last = Op("load", <<>>)
  /\ bootTrace = <<"run">>
  /\ modeStore \in StorePool
  /\ v = getSettings(modeStore)
  /\ controls \in
       { FreshControls, [FreshControls EXCEPT !["tool"].value = "pen"] }
  /\ written = EmptyDoc
  /\ sharedFiles = <<>>
  /\ localFiles = <<>>
  /\ res = resStore(sharedFiles, localFiles)
  /\ dom = <<>>
  /\ mappings = <<>>

SettingsOp(op, a) ==
  /\ nev < MaxOps
  /\ nev' = nev + 1
  /\ last' = Op(op, a)

\* The mode calls mode.settings.load().
ModeSettingsLoad ==
  /\ SettingsOp("settings.load", <<>>)
  /\ SetSettingsState(settingsLoad(SettingsState))
  /\ UNCHANGED <<written, coreVars, i18nVars, dom, mappings>>

\* The mode calls mode.settings.save().
ModeSettingsSave ==
  /\ SettingsOp("settings.save", <<>>)
  /\ SetSettingsState(settingsSave(SettingsState))
  /\ UNCHANGED <<written, coreVars, i18nVars, dom, mappings>>

\* The mode calls mode.settings.clear().
ModeSettingsClear ==
  /\ SettingsOp("settings.clear", <<>>)
  /\ SetSettingsState(settingsClear(SettingsState))
  /\ written' = EmptyDoc
  /\ UNCHANGED <<coreVars, i18nVars, dom, mappings>>

\* The mode calls mode.settings.$manage(selectors).
ModeSettingsManage ==
  \E elements \in ManageInputs :
    /\ SettingsOp("settings.manage", elements)
    /\ SetSettingsState(manage(SettingsState, elements))
    /\ UNCHANGED <<written, coreVars, i18nVars, dom, mappings>>

\* The user gives a control another value (or checks another radio button);
\* the browser fires its change event and the bound handlers run.
ControlChange ==
  \E key \in {"name", "size", "tool"} :
    \E x \in Range(ControlOptions[key]) \ {controls[key].value} :
      LET st0 == [SettingsState EXCEPT !.controls[key].value = x]
          n == controls[key].handlers
      IN /\ SettingsOp("change", <<key, x>>)
         /\ SetSettingsState(IF ControlKinds[key] = "radio"
                             THEN triggerRadio(st0, key, x, n)
                             ELSE triggerScalar(st0, key, n))
         /\ written' = IF n > 0 THEN SetKey(written, key, x) ELSE written
         /\ UNCHANGED <<coreVars, i18nVars, dom, mappings>>

NextSettings ==
  \/ ModeSettingsLoad
  \/ ModeSettingsSave
  \/ ModeSettingsClear
  \/ ModeSettingsManage
  \/ ControlChange

SpecSettings == InitSettings /\ [][NextSettings]_vars

\* Another window saves a settings document for this mode.
HostSavesModeSettings ==
  \E d \in StorePool \ {modeStore} :
    /\ SettingsOp("hostSaveMode", <<>>)
    /\ modeStore' = d
    /\ UNCHANGED <<v, controls, written, coreVars, i18nVars, dom, mappings>>

NextSync ==
  \/ NextSettings
  \/ HostSavesModeSettings
  \/ HostSavesSettings
  \/ IpcSettingsUpdate

SpecSync == InitSettings /\ [][NextSync]_vars

----------------------------------------------------------------------------
(* i18nInit on its own, over the language files found in the two folders.  *)

MaxFiles == 2

File(name, ok, data) == [name |-> name, ok |-> ok, data |-> data]

\* Files of resources/_i18n.
SharedPool ==
  { File(<<"en-US", "json">>, TRUE,
         {Leaf(<<"_meta", "target">>, "en-US"),
          Leaf(<<"common", "hello">>, "Hi")}),
    File(<<"en-US-alt", "json">>, TRUE,
         {Leaf(<<"_meta", "target">>, "en-US"),
          Leaf(<<"common", "bye">>, "Bye")}),
    File(<<"en-US-modes", "json">>, TRUE,
         {Leaf(<<"_meta", "target">>, "en-US"),
          Leaf(<<"common", "hello">>, "Hi"),
          Leaf(<<"modes", "draw", "title">>, "Draw")}),
    File(<<"fr-FR", "json">>, TRUE,
         {Leaf(<<"_meta", "target">>, "fr-FR"),
          Leaf(<<"common", "hello">>, "Salut")}),
    File(<<"de-DE", "json">>, FALSE, {}),
    File(<<"notes", "json">>, TRUE,
         {Leaf(<<"common", "hello">>, "Hm")}),
    File(<<"xx", "json">>, TRUE,
         {Leaf(<<"_meta", "creator">>, "x"),
          Leaf(<<"common", "hello">>, "Hm")}) }

\* Files of the mode's _i18n folder.
LocalPool ==
  { File(<<"en-US", "json">>, TRUE,
         {Leaf(<<"_meta", "target">>, "en-US"),
          Leaf(<<"start">>, "Go")}),
    File(<<"fr-FR", "json">>, TRUE,
         {Leaf(<<"_meta", "target">>, "fr-FR"),
          Leaf(<<"start">>, "Aller")}),
    File(<<"draw", "map", "json">>, TRUE,
         {Leaf(<<"_meta", "target">>, "en-US"),
          Leaf(<<"map", "start">>, "button")}),
    File(<<"de-DE", "json">>, FALSE, {}),
    File(<<"xx", "json">>, TRUE,
         {Leaf(<<"_meta", "creator">>, "x"),
          Leaf(<<"start">>, "Hm")}) }

\* fs.readdirSync(dir): up to MaxFiles files with different names.
Dirs(pool) ==
  {d \in UNION {[1..n -> pool] : n \in 0..MaxFiles} :
     \A i, j \in DOMAIN d : i # j => d[i].name # d[j].name}

InitI18n ==
  /\ caps = {}
  /\ dependencies = <<>>
  /\ i18nType = "native"
  /\ mapFile = "missing"
  /\ domReady = FALSE
  /\ canvas = TRUE
  /\ paper = FALSE
  /\ botPending = TRUE
  /\ paperPending = FALSE
  /\ outbound = <<>>
  /\ calls = <<>>
  /\ closures = <<>>
  /\ closeReqs = <<>>
  /\ nTranslate = 0
  /\ centralStore = "s0"
  /\ rpSettings = centralStore
  /\ uncaught = FALSE
  /\ nev = 0
  /\ last = Op("load", <<>>)
  /\ bootTrace = <<>>
  /\ modeStore = EmptyDoc
  /\ v = getSettings(modeStore)
  /\ controls = FreshControls
  /\ written = EmptyDoc
  /\ sharedFiles \in Dirs(SharedPool)
  /\ localFiles \in Dirs(LocalPool)
  /\ res = {}
  /\ dom = <<>>
  /\ mappings = <<>>

\* The preload script calls i18nInit().
I18nInit ==
  /\ nev = 0
  /\ nev' = 1
  /\ last' = Op("i18nInit", <<>>)
  /\ res' = resStore(sharedFiles, localFiles)
  /\ UNCHANGED <<coreVars, formVars, sharedFiles, localFiles, dom, mappings>>

NextI18n == I18nInit

SpecI18n == InitI18n /\ [][NextI18n]_vars

----------------------------------------------------------------------------
(* DOM-map translation on its own, over small pages and maps.              *)

MaxRules == 2

NoAttrs == [title |-> ""]

Element(nodes) == [nodes |-> nodes, attrs |-> NoAttrs]

\* Pages: element a carries class btn and has children, b carries class btn.
DomPool ==
  { [a |-> Element(<<TextNode("Start"), ElemNode("b"), TextNode("tail")>>),
     b |-> Element(<<TextNode("inner")>>),
     c |-> Element(<<>>)],
    [a |-> Element(<<ElemNode("b"), TextNode("after"), ElemNode("c")>>),
     b |-> Element(<<>>),
     c |-> Element(<<TextNode("x"), TextNode("y")>>)],
    [a |-> Element(<<ElemNode("b"), ElemNode("c")>>),
     b |-> Element(<<TextNode("one"), ElemNode("c"), TextNode("two")>>),
     c |-> Element(<<TextNode("deep")>>)] }

Rule(selector, kind, key, attrs) ==
  [selector |-> selector, kind |-> kind, key |-> key, attrs |-> attrs]

RulePool ==
  { Rule("#a", "string", "k.start", <<>>),
    Rule(".btn", "object", "", << <<"text", "k.start">>, <<"title", "k.tip">> >>),
    Rule("#c", "object", "", << <<"title", "k.none">> >>),
    Rule("#zz", "string", "k.tip", <<>>),
    Rule("#c", "other", "", <<>>),
    Rule("!!", "string", "k.start", <<>>) }

\* require(domFile).map: up to MaxRules rules, one per selector.
Maps ==
  {m \in UNION {[1..n -> RulePool] : n \in 0..MaxRules} :
     \A i, j \in DOMAIN m : i # j => m[i].selector # m[j].selector}

InitDom ==
  /\ caps \in {{}, {"translateComplete"}}
  /\ dependencies = <<>>
  /\ i18nType = "dom"
  /\ mapFile = "ok"
  /\ domReady = FALSE
  /\ canvas = TRUE
  /\ paper = FALSE
  /\ botPending = TRUE
  /\ paperPending = FALSE
  /\ outbound = <<>>
  /\ calls = <<>>
  /\ closures = <<>>
  /\ closeReqs = <<>>
  /\ nTranslate = 0
  /\ centralStore = "s0"
  /\ rpSettings = centralStore
  /\ uncaught = FALSE
  /\ nev = 0
  /\ last = Op("load", <<>>)
  /\ bootTrace = <<>>
  /\ modeStore = EmptyDoc
  /\ v = getSettings(modeStore)
  /\ controls = FreshControls
  /\ written = EmptyDoc
  /\ sharedFiles = <<>>
  /\ localFiles = <<>>
  /\ res = resStore(sharedFiles, localFiles)
  /\ dom \in DomPool
  /\ mappings \in Maps

NextDom ==
  \/ DomReady
  \/ IpcCncserver

SpecDom == InitDom /\ [][NextDom]_vars

----------------------------------------------------------------------------
(* Properties *)

CloseChannels == {"globalclose", "modechange"}

IsCloseAck(m) == m.chan \in CloseChannels /\ m.args = <<>>

NumAcks == Cardinality({i \in DOMAIN outbound : IsCloseAck(outbound[i])})

NumFired == Cardinality({i \in DOMAIN closures : closures[i].fired})

IsPrefix(s, t) == Len(s) <= Len(t) /\ SubSeq(t, 1, Len(s)) = s

\* C1: for a mode without onClose, the step that handles an inbound
\* 'globalclose' event appends exactly one acknowledgment on 'globalclose'
\* to the outbound messages and changes nothing else: no mode capability is
\* invoked, no callback is handed out, and the settings, translation and
\* boot state stay as they were.
C1_GlobalcloseAckedOnce ==
  [][ (last'.op = "globalclose" /\ "onClose" \notin caps)
        => /\ outbound' =
                Append(outbound, [chan |-> "globalclose", args |-> <<>>])
           /\ UNCHANGED <<calls, closures, rpSettings, centralStore,
                          nTranslate, uncaught, bootVars, config>> ]_vars

C1_Witness ==
  /\ "onClose" \notin caps
  /\ last.op = "globalclose"
  /\ domReady
  /\ Len(outbound) >= 1
  /\ outbound[Len(outbound)] = [chan |-> "globalclose", args |-> <<>>]

\* C2: for a mode with onClose, the step that handles an inbound close
\* event ('globalclose' or 'modechange') invokes mode.onClose with one
\* argument, the acknowledgment callback, and sends nothing; and at every
\* moment the number of close acknowledgments sent equals the number of
\* callbacks the mode has fired, so none is sent before a callback fires
\* and none at all while the mode fires none.
C2_AckOnlyAfterCallback ==
  /\ [][ (last'.op \in CloseChannels /\ "onClose" \in caps)
           => /\ calls' = Append(calls, [fn |-> "onClose",
                                         args |-> <<"callback">>])
              /\ Len(closures') = Len(closures) + 1
              /\ outbound' = outbound ]_vars
  /\ []("onClose" \in caps => NumAcks = NumFired)

C2_Witness ==
  /\ "onClose" \in caps
  /\ Len(closures) = 2
  /\ closures[1].fired
  /\ ~closures[2].fired
  /\ NumAcks = 1

\* C3: every close acknowledgment goes out on the channel of the inbound
\* close event it answers: when the mode fires the callback handed out for
\* the i-th close request, the message is sent on that request's channel,
\* and a mode without onClose is answered on the channel of the event being
\* handled.
C3_AckOnRequestChannel ==
  [][ /\ (last'.op = "fireAck" /\ "onClose" \in caps)
         => \E i \in DOMAIN closures :
              /\ ~closures[i].fired
              /\ closures'[i].fired
              /\ outbound' =
                   Append(outbound, [chan |-> closeReqs[i], args |-> <<>>])
      /\ (last'.op \in CloseChannels /\ "onClose" \notin caps)
         => outbound' = Append(outbound, [chan |-> last'.op, args |-> <<>>])
    ]_vars

C3_Witness ==
  /\ closeReqs = <<"globalclose", "modechange">>
  /\ Len(closures) = 2
  /\ closures[1].fired
  /\ closures[2].fired
  /\ \E i, j \in DOMAIN outbound :
       /\ i < j
       /\ outbound[i] = [chan |-> "modechange", args |-> <<>>]
       /\ outbound[j] = [chan |-> "globalclose", args |-> <<>>]

\* C4: a call of fullCancel(message) sends exactly one 'cncserver-run'
\* message whose payload is the batch clear, resume, park,
\* [status, message, true], [progress, 0, 1], localclear followed by the
\* priority flag true, and does nothing else.
C4_FullCancelOneBatch ==
  [][ last'.op = "fullCancel"
        => /\ outbound' =
                Append(outbound,
                  [chan |-> "cncserver-run",
                   args |-> << << << "clear", "resume", "park",
                                     <<"status", last'.a[1], TRUE>>,
                                     <<"progress", 0, 1>>, "localclear" >>,
                                  TRUE >> >>])
           /\ UNCHANGED <<calls, closures>> ]_vars

C4_Witness ==
  /\ last.op = "fullCancel"
  /\ last.a = <<"done">>
  /\ Len(outbound) = 2
  /\ outbound[2].chan = "cncserver-run"
  /\ Len(outbound[2].args) = 1
  /\ outbound[2].args[1][2] = TRUE
  /\ outbound[2].args[1][1][6] = "localclear"

\* C5: a call of run(...) appends exactly one 'cncserver-run' message whose
\* payload is the argument list of the call, unchanged and in order, and
\* touches nothing else; no step removes or reorders a message already
\* sent, so the messages of successive calls appear in call order.
C5_RunPassthrough ==
  [][ /\ last'.op = "run"
         => /\ outbound' =
                 Append(outbound, [chan |-> "cncserver-run",
                                   args |-> <<RunInputs[last'.a[1]]>>])
            /\ UNCHANGED <<calls, closures, bootVars, uncaught>>
      /\ IsPrefix(outbound, outbound') ]_vars

C5_Witness ==
  /\ last.op = "run"
  /\ Len(outbound) = 2
  /\ outbound[1] = [chan |-> "cncserver-run",
                    args |-> << << <<"up">>, <<"down">> >> >>]
  /\ outbound[2] = [chan |-> "cncserver-run",
                    args |-> << << <<"clear", "resume">> >> >>]

KnownCncEvents ==
  {"penUpdate", "bufferUpdate", "fullyPaused", "fullyResumed",
   "callbackEvent"}

NamedCapability(n) ==
  CASE n = "penUpdate" -> "onPenUpdate"
    [] n = "bufferUpdate" -> "onBufferUpdate"
    [] n = "fullyPaused" -> "onFullyPaused"
    [] n = "fullyResumed" -> "onFullyResumed"
    [] n = "callbackEvent" -> "onCallbackEvent"

\* C6: the step that handles an inbound 'cncserver' event (name, data)
\* invokes, for the five device events, only the capability named after the
\* event, with data, when the mode has it and nothing otherwise; for any
\* other name except langChange it invokes onMessage(name, data) when the
\* mode has it and nothing otherwise; it sends nothing and raises no error.
C6_CncRouting ==
  [][ last'.op = "cncserver"
        => LET n == last'.a[1]
               d == last'.a[2]
           IN /\ outbound' = outbound
              /\ uncaught' = uncaught
              /\ n \in KnownCncEvents
                   => calls' = IF NamedCapability(n) \in caps
                               THEN Append(calls, [fn |-> NamedCapability(n),
                                                   args |-> <<d>>])
                               ELSE calls
              /\ (n \notin KnownCncEvents /\ n # "langChange")
                   => calls' = IF "onMessage" \in caps
                               THEN Append(calls, [fn |-> "onMessage",
                                                   args |-> <<n, d>>])
                               ELSE calls ]_vars

C6_Witness ==
  /\ last.op = "cncserver"
  /\ last.a[1] = "bufferUpdate"
  /\ "onMessage" \in caps
  /\ "onBufferUpdate" \notin caps
  /\ Len(calls) = 1
  /\ calls[1] = [fn |-> "onMessage", args |-> <<"PenUpdate", "d1">>]

\* C7: translateMode() has not run before the document is ready.
C7_TranslateAfterDomReady == nTranslate > 0 => domReady

RunClearResume ==
  [chan |-> "cncserver-run", args |-> << << <<"clear", "resume">> >> >>]

BootCalls ==
  (IF "bindControls" \in caps
   THEN <<[fn |-> "bindControls", args |-> <<>>]>> ELSE <<>>)
  \o (IF "pageInitReady" \in caps
      THEN <<[fn |-> "pageInitReady", args |-> <<>>]>> ELSE <<>>)

PaperDeclared == \E i \in DOMAIN dependencies : dependencies[i] = "paper"

\* C8: a completion handler (device settings or paper load) runs the boot
\* continuation, i.e. sends the initial ['clear', 'resume'] run and invokes
\* bindControls and pageInitReady, exactly when, for a mode that declares
\* 'paper', both robopaint.canvas and window.paper are set after it, and for
\* a mode that does not, it is the device-settings completion; otherwise it
\* sends and invokes nothing.
C8_BootJoin ==
  [][ last'.op \in {"botSettings", "paperLoaded"}
        => IF (IF PaperDeclared THEN canvas' /\ paper'
                                ELSE last'.op = "botSettings")
           THEN /\ outbound' = Append(outbound, RunClearResume)
                /\ calls' = calls \o BootCalls
           ELSE /\ outbound' = outbound
                /\ calls' = calls ]_vars

C8_Witness ==
  /\ PaperDeclared
  /\ last.op = "botSettings"
  /\ canvas
  /\ paper
  /\ "bindControls" \in caps
  /\ outbound = <<RunClearResume>>
  /\ calls = BootCalls

\* C9: mode.bindControls has been invoked only if the document is ready and
\* the initial translateMode() run has been done.
C9_BindControlsAfterTranslate ==
  (\E i \in DOMAIN calls : calls[i].fn = "bindControls")
    => (domReady /\ nTranslate >= 1)

\* C10: the DOM-ready step and every step that handles a langChange event
\* run translateMode() once; every run invokes translateComplete once, with
\* no arguments, when the mode has it, invokes no other capability, and ends
\* without an error, whatever the strategy and the state of the map file.
C10_TranslateComplete ==
  [][ /\ (last'.op = "domReady"
          \/ (last'.op = "cncserver" /\ last'.a[1] = "langChange"))
         => nTranslate' = nTranslate + 1
      /\ nTranslate' # nTranslate
         => /\ nTranslate' = nTranslate + 1
            /\ uncaught' = uncaught
            /\ calls' = IF "translateComplete" \in caps
                        THEN Append(calls, [fn |-> "translateComplete",
                                            args |-> <<>>])
                        ELSE calls ]_vars

C10_Witness ==
  /\ i18nType = "dom"
  /\ mapFile = "missing"
  /\ "translateComplete" \in caps
  /\ last.op = "cncserver"
  /\ last.a[1] = "langChange"
  /\ nTranslate = 2
  /\ ~uncaught
  /\ calls = << [fn |-> "translateComplete", args |-> <<>>],
                [fn |-> "translateComplete", args |-> <<>>] >>

NumPending == Cardinality({i \in DOMAIN closures : ~closures[i].fired})

\* C19: a close request that arrives while an acknowledgment callback is
\* still pending is absorbed: it raises no error, mode.onClose is not
\* invoked again and no second callback is handed out, so that at most one
\* callback is pending at any time and the mode's acknowledgment produces
\* one outbound message, as for a single request.
C19_ReRequestIdempotent ==
  /\ ~uncaught
  /\ "onClose" \in caps => NumPending <= 1

Rank(a) ==
  CASE a = "run" -> 1 [] a = "bindControls" -> 2 [] a = "pageInitReady" -> 3

NumCalls(fn) == Cardinality({i \in DOMAIN calls : calls[i].fn = fn})

\* C20: the boot continuation runs at most once: the initial
\* ['clear', 'resume'] batch is sent at most once, bindControls and
\* pageInitReady are each invoked at most once, and what has been done was
\* done in the order batch, bindControls, pageInitReady.
C20_BootAtMostOnce ==
  /\ \A i, j \in DOMAIN bootTrace :
       i < j => Rank(bootTrace[i]) < Rank(bootTrace[j])
  /\ NumCalls("bindControls") <= 1
  /\ NumCalls("pageInitReady") <= 1
  /\ bootTrace # <<>> =>
       \E k \in DOMAIN outbound : outbound[k] = RunClearResume

C20_Witness ==
  /\ PaperDeclared
  /\ ~botPending
  /\ ~paperPending
  /\ last.op = "paperLoaded"
  /\ bootTrace = <<"run", "bindControls", "pageInitReady">>
  /\ NumCalls("bindControls") = 1
  /\ NumCalls("pageInitReady") = 1

\* C11: a settings load() leaves, for every key a managed control's change
\* event has written since the last clear(), the value written last in
\* mode.settings.v.
C11_PersistenceRoundTrip ==
  [][ last'.op = "settings.load"
        => \A k \in DOMAIN written :
             k \in DOMAIN v' /\ v'[k] = written[k] ]_vars

C11_Witness ==
  /\ last.op = "settings.load"
  /\ DOMAIN written = {"name", "tool"}
  /\ written["name"] = "a"
  /\ written["tool"] = "brush"
  /\ "name" \in DOMAIN v
  /\ v["name"] = "a"
  /\ v["tool"] = "brush"

\* C12: a second $manage call on the same elements, right after the first
\* with nothing done in between, leaves the persisted document as the first
\* call left it.
C12_ManageIdempotent ==
  [][ (last.op = "settings.manage" /\ last'.op = "settings.manage"
       /\ last'.a = last.a)
        => modeStore' = modeStore ]_vars

C12_Witness ==
  /\ last.op = "settings.manage"
  /\ nev = 2
  /\ controls["name"].handlers = 2
  /\ controls["size"].handlers = 2
  /\ controls["tool"].handlers = 2
  /\ "size" \in DOMAIN modeStore
  /\ modeStore["size"] = ""

DiffKeys(a, b) ==
  {k \in DOMAIN a \cup DOMAIN b :
     ~(k \in DOMAIN a /\ k \in DOMAIN b /\ a[k] = b[k])}

\* C13: between handlers mode.settings.v and the persisted document differ
\* in at most one key, and they are equal after load(), save(), clear() and
\* after a change event of a managed control.
C13_MemoryMatchesStore ==
  /\ Cardinality(DiffKeys(v, modeStore)) <= 1
  /\ (\/ last.op \in {"settings.load", "settings.save", "settings.clear"}
      \/ (last.op = "change" /\ controls[last.a[1]].handlers > 0))
       => v = modeStore

\* C14: after an inbound 'settingsUpdate' event mode.settings.v equals the
\* persisted document of the mode.
C14_SettingsUpdateReloads ==
  last.op = "settingsUpdate" => v = modeStore

Built == last.op = "i18nInit"

\* The file parses and declares a language code.
Declares(file) == file.ok /\ IsString(file.data, <<"_meta", "target">>)

TranslationFiles(files) == SelectSeq(files, LAMBDA f : NotMapFile(f.name))

\* C15: with one shared file and one mode-local translation file of the same
\* language, the tree of that language holds every key of the shared file
\* and, under modes.<mode-name>, every key of the mode-local file; '.map.json'
\* files add nothing to the tree.
C15_MergeKeepsAllKeys ==
  Built =>
    /\ res = resStore(sharedFiles, TranslationFiles(localFiles))
    /\ (/\ Len(sharedFiles) = 1
        /\ Len(TranslationFiles(localFiles)) = 1
        /\ Declares(sharedFiles[1])
        /\ Declares(TranslationFiles(localFiles)[1])
        /\ targetOf(sharedFiles[1].data)
             = targetOf(TranslationFiles(localFiles)[1].data))
         => LET tree == Sub(res, <<targetOf(sharedFiles[1].data),
                                   "translation">>)
            IN /\ sharedFiles[1].data \subseteq tree
               /\ TranslationFiles(localFiles)[1].data
                    \subseteq Sub(tree, <<"modes", ModeName>>)

\* C16: every mode-local translation file that parses and declares a
\* language (the last one, if several declare the same) has its content
\* under modes.<mode-name> of that language's tree.
C16_LocalFileInserted ==
  Built =>
    \A i \in DOMAIN localFiles :
      (/\ NotMapFile(localFiles[i].name)
       /\ Declares(localFiles[i])
       /\ \A j \in DOMAIN localFiles :
            (j > i /\ NotMapFile(localFiles[j].name) /\ Declares(localFiles[j]))
              => targetOf(localFiles[j].data) # targetOf(localFiles[i].data))
        => Sub(res, <<targetOf(localFiles[i].data), "translation", "modes",
                      ModeName>>) = localFiles[i].data

\* C17: the tree equals the tree built from the file set without the files
\* that fail to parse or declare no language code.
C17_FailureIsolated ==
  Built =>
    res = resStore(SelectSeq(sharedFiles, Declares),
                   SelectSeq(localFiles, Declares))

\* The rules whose selector matches at least one element of the page.
MatchingRules ==
  SelectSeq(mappings, LAMBDA r : ~ValidSelector(r.selector)
                                   \/ Select(dom, r.selector) # {})

====
